---- MODULE Spec2Model ----
\* Model of galaxy_importer/utils/spdx_licenses.py (the lazily loaded SPDX
\* license catalog) and of galaxy_importer/schema.py (the attrs value objects
\* whose construction runs the metadata validators).
EXTENDS Integers, Sequences, FiniteSets, TLC

VARIABLES
    \* ---- spdx_licenses.py -------------------------------------------------
    spdx,        \* module global _SPDX_LICENSES: [isNone, tbl]
    diskOk,      \* whether opening spdx_licenses.json succeeds right now
    disk,        \* the table stored in spdx_licenses.json
    loads,       \* number of times _load_spdx has opened the file
    writes,      \* number of assignments to _SPDX_LICENSES
    calls,       \* number of is_valid_license_id calls started
    lastCall,    \* [made, id, result, afterFail] of the latest finished call
    loadFailed,  \* a load has hit OSError at some point of this process
    \* ---- concurrent callers of is_valid_license_id ---------------------------
    tpc,         \* per thread: position inside is_valid_license_id/_get_spdx
    targ,        \* per thread: the license_id argument
    ttmp,        \* per thread: value returned by _load_spdx, not yet assigned
    \* ---- schema.py: construction of one value object ---------------------
    cfg,         \* what config.Config(ConfigFile.load()) yields right now
    cls,         \* class under construction
    inp,         \* the instance's fields as assigned by __init__
    pc,          \* "idle" | "validate" | "post" | "returned" | "raised"
    fld,         \* index (declaration order) of the next field to validate
    ran,         \* fields whose validators have been run, in order
    err,         \* the exception that left the constructor
    obj,         \* the instance handed to the caller ([some, fields])
    \* ---- schema.py: instances living on the heap --------------------------
    heap,        \* sequence of instances [cls, fields, given, touched]
    setlog       \* attribute assignments attempted: [n, frozenError]

catVars == <<spdx, diskOk, disk, loads, writes, calls, lastCall, loadFailed>>
thrVars == <<tpc, targ, ttmp>>
ctorVars == <<cfg, cls, inp, pc, fld, ran, err, obj>>
heapVars == <<heap, setlog>>
vars == <<catVars, thrVars, ctorVars, heapVars>>

\* ---------------------------------------------------------------------------
\* Bounds of the model
\* ---------------------------------------------------------------------------
MaxCalls == 3      \* is_valid_license_id calls per run (per thread in SpecThreads)
NumThreads == 2    \* concurrent callers
MaxChanged == 2    \* fields of a CollectionInfo input that differ from the valid base
MaxHeap == 2       \* instances alive at once
MaxSets == 2       \* attribute assignments attempted after construction

\* ---------------------------------------------------------------------------
\* Python values. Strings are sequences of one-character strings, so that
\* len(), split(".") and the regular expressions are computed, not assumed.
\* ---------------------------------------------------------------------------
PyNone == [t |-> "none", s |-> <<>>, items |-> <<>>]
PyStr(cs) == [t |-> "str", s |-> cs, items |-> <<>>]
PyInt(ds) == [t |-> "int", s |-> ds, items |-> <<>>]
PyList(xs) == [t |-> "list", s |-> <<>>, items |-> xs]
PyPair(k, v) == [t |-> "pair", s |-> <<>>, items |-> <<k, v>>]
PyDict(ps) == [t |-> "dict", s |-> <<>>, items |-> ps]

IsNone(v) == v.t = "none"
IsStr(v) == v.t = "str"
IsList(v) == v.t = "list"
IsDict(v) == v.t = "dict"

\* bool(v)
Truthy(v) ==
    CASE v.t = "none" -> FALSE
      [] v.t = "str" -> v.s # <<>>
      [] v.t = "int" -> v.s # <<"0">>
      [] OTHER -> v.items # <<>>

Rep(c, n) == [i \in 1..n |-> c]

Lower == {"a", "b", "c", "d", "e", "f", "g", "h", "i", "j", "k", "l", "m",
          "n", "o", "p", "q", "r", "s", "t", "u", "v", "w", "x", "y", "z"}
Upper == {"A", "B", "C", "D", "E", "F", "G", "H", "I", "J", "K", "L", "M",
          "N", "O", "P", "Q", "R", "S", "T", "U", "V", "W", "X", "Y", "Z"}
Digit == {"0", "1", "2", "3", "4", "5", "6", "7", "8", "9"}

\* ---------------------------------------------------------------------------
\* spdx_licenses.py
\* ---------------------------------------------------------------------------
\* A table is a set of entries [id, dep]; dep is the entry's "deprecated"
\* member: "yes" (true), "no" (false) or "absent" (the member is missing).
MIT == <<"M", "I", "T">>
GPL == <<"G", "P", "L">>
OLD == <<"O", "L", "D">>
BAD == <<"B", "A", "D">>

Keys(tbl) == {e.id : e \in tbl}
Entry(tbl, id) == CHOOSE e \in tbl : e.id = id

\* The file shipped with the package.
BundledTable ==
    {[id |-> MIT, dep |-> "no"], [id |-> GPL, dep |-> "absent"], [id |-> OLD, dep |-> "yes"]}

\* Files a catalog check is run against: every table over CatalogIds.
CatalogIds == {MIT, OLD}
Tables ==
    {tbl \in SUBSET [id : CatalogIds, dep : {"yes", "no", "absent"}] :
        \A a, b \in tbl : a.id = b.id => a = b}

\* _load_spdx: the file's table, or {} when opening it raises OSError.
_load_spdx(ok, file) == IF ok THEN file ELSE {}

\* `not _SPDX_LICENSES`: true for None and for the empty dict.
CacheFalsy(c) == c.isNone \/ c.tbl = {}

\* _get_spdx as one step: [cache, loaded] where loaded tells whether
\* _load_spdx was called.
_get_spdx(c, ok, file) ==
    IF CacheFalsy(c)
    THEN [cache |-> [isNone |-> FALSE, tbl |-> _load_spdx(ok, file)], loaded |-> TRUE]
    ELSE [cache |-> c, loaded |-> FALSE]

\* The lookup of is_valid_license_id (lines 43-51) in table tbl.
Lookup_no_deprecation(tbl, id) == id \in Keys(tbl)
Lookup(tbl, id) ==
    IF id \notin Keys(tbl) THEN FALSE
    ELSE IF Entry(tbl, id).dep = "yes" THEN FALSE
    ELSE TRUE

\* is_valid_license_id(license_id): [result, cache, loaded].
is_valid_license_id(v, c, ok, file) ==
    IF IsNone(v) THEN [result |-> FALSE, cache |-> c, loaded |-> FALSE]
    ELSE LET g == _get_spdx(c, ok, file)
         IN [result |-> Lookup(g.cache.tbl, v.s), cache |-> g.cache, loaded |-> g.loaded]

\* License identifiers callers ask about.
CallIds == {PyNone, PyStr(MIT), PyStr(OLD), PyStr(BAD)}

NoCall == [made |-> FALSE, id |-> PyNone, result |-> FALSE, afterFail |-> FALSE]

\* ---------------------------------------------------------------------------
\* Strings: str.split, constants.NAME_REGEXP, semantic_version
\* ---------------------------------------------------------------------------
\* s.split(c): the segments between the occurrences of c
Split(s, c) ==
    LET seps == {i \in 1..Len(s) : s[i] = c}
        n == Cardinality(seps) + 1
        pos(k) == CHOOSE i \in seps : Cardinality({j \in seps : j < i}) = k - 1
    IN [k \in 1..n |->
           SubSeq(s, IF k = 1 THEN 1 ELSE pos(k - 1) + 1,
                     IF k = n THEN Len(s) ELSE pos(k) - 1)]

\* index of the first c in s, 0 when there is none
Find(s, c) ==
    IF \E i \in 1..Len(s) : s[i] = c
    THEN CHOOSE i \in 1..Len(s) : s[i] = c /\ \A j \in 1..(i - 1) : s[j] # c
    ELSE 0

\* constants.NAME_REGEXP: ^(?!.*__)[a-z]+[0-9a-z_]*$
MatchName(s) ==
    /\ Len(s) >= 1
    /\ s[1] \in Lower
    /\ \A i \in 1..Len(s) : s[i] \in Lower \cup Digit \cup {"_"}
    /\ \A i \in 1..(Len(s) - 1) : ~(s[i] = "_" /\ s[i + 1] = "_")

\* 0|[1-9][0-9]*
IsNumber(ds) ==
    /\ ds # <<>>
    /\ \A i \in 1..Len(ds) : ds[i] \in Digit
    /\ (Len(ds) > 1 => ds[1] # "0")

\* dot-separated identifiers of a prerelease or build part
IsIdentifiers(s, leadingZeroes) ==
    /\ s # <<>>
    /\ \A i \in 1..Len(s) : s[i] \in Lower \cup Upper \cup Digit \cup {".", "-"}
    /\ \A k \in 1..Len(Split(s, ".")) :
         LET item == Split(s, ".")[k]
         IN /\ item # <<>>
            /\ ((~leadingZeroes /\ \A i \in 1..Len(item) : item[i] \in Digit)
                    => IsNumber(item))

\* The parts of a version string: core "-" prerelease "+" build.
VersionParts(s) ==
    LET p == Find(s, "+")
        main == IF p = 0 THEN s ELSE SubSeq(s, 1, p - 1)
        m == Find(main, "-")
    IN [core |-> IF m = 0 THEN main ELSE SubSeq(main, 1, m - 1),
        hasPre |-> m # 0,
        pre |-> IF m = 0 THEN <<>> ELSE SubSeq(main, m + 1, Len(main)),
        hasBuild |-> p # 0,
        build |-> IF p = 0 THEN <<>> ELSE SubSeq(s, p + 1, Len(s))]

\* semantic_version.Version(s) parses (strict, not partial)
IsSemver(s) ==
    LET v == VersionParts(s)
        nums == Split(v.core, ".")
    IN /\ Len(nums) = 3
       /\ \A i \in 1..3 : IsNumber(nums[i])
       /\ (v.hasPre => IsIdentifiers(v.pre, FALSE))
       /\ (v.hasBuild => IsIdentifiers(v.build, TRUE))

\* semantic_version.Version(s) < semantic_version.Version("1.0.0"), s a semver
SemverLtOne(s) ==
    LET v == VersionParts(s)
        nums == Split(v.core, ".")
    IN \/ nums[1] = <<"0">>
       \/ (nums = <<<<"1">>, <<"0">>, <<"0">>>> /\ v.hasPre)

\* semantic_version.SimpleSpec(s) parses: comma-separated blocks, each an
\* operator followed by one to three dot-separated numbers or wildcards
\* (blocks with a prerelease or build suffix are not among the inputs).
SpecOps == {<<>>, <<"<">>, <<"<", "=">>, <<"=">>, <<"=", "=">>, <<">", "=">>, <<">">>,
            <<"!", "=">>, <<"^">>, <<"~">>, <<"~", "=">>}
OpChars == {"<", ">", "=", "!", "^", "~"}

IsSpecBlock(b) ==
    LET n == IF \E i \in 1..Len(b) : b[i] \notin OpChars
             THEN (CHOOSE i \in 1..Len(b) :
                      b[i] \notin OpChars /\ \A j \in 1..(i - 1) : b[j] \in OpChars) - 1
             ELSE Len(b)
        op == SubSeq(b, 1, n)
        nums == Split(SubSeq(b, n + 1, Len(b)), ".")
    IN /\ op \in SpecOps
       /\ Len(nums) \in 1..3
       /\ \A i \in 1..Len(nums) : IsNumber(nums[i]) \/ nums[i] \in {<<"*">>, <<"x">>, <<"X">>}
       /\ (nums[1] \in {<<"*">>, <<"x">>, <<"X">>} =>
              op \in {<<>>, <<"=">>, <<"=", "=">>, <<">", "=">>})

IsSimpleSpec(s) ==
    \A k \in 1..Len(Split(s, ",")) : IsSpecBlock(Split(s, ",")[k])

\* ---------------------------------------------------------------------------
\* schema.py: constants
\* ---------------------------------------------------------------------------
MAX_LENGTH_AUTHOR == 64
MAX_LENGTH_LICENSE == 32
MAX_LENGTH_NAME == 64
MAX_LENGTH_TAG == 64
MAX_LENGTH_URL == 2000
MAX_LENGTH_VERSION == 128
\* constants.MAX_TAGS_COUNT
MAX_TAGS_COUNT == 20

REQUIRED_TAG_LIST ==
    { <<"a", "i">>,
      <<"a", "p", "p", "l", "i", "c", "a", "t", "i", "o", "n">>,
      <<"c", "l", "o", "u", "d">>,
      <<"d", "a", "t", "a", "b", "a", "s", "e">>,
      <<"e", "d", "a">>,
      <<"i", "n", "f", "r", "a", "s", "t", "r", "u", "c", "t", "u", "r", "e">>,
      <<"l", "i", "n", "u", "x">>,
      <<"m", "o", "n", "i", "t", "o", "r", "i", "n", "g">>,
      <<"n", "e", "t", "w", "o", "r", "k", "i", "n", "g">>,
      <<"s", "e", "c", "u", "r", "i", "t", "y">>,
      <<"s", "t", "o", "r", "a", "g", "e">>,
      <<"t", "o", "o", "l", "s">>,
      <<"w", "i", "n", "d", "o", "w", "s">> }

\* ---------------------------------------------------------------------------
\* schema.py: exceptions
\* ---------------------------------------------------------------------------
NoErr == [kind |-> "none", meta |-> FALSE, msg |-> "", field |-> ""]

\* CollectionInfo.value_error: ValueError("Invalid collection metadata. " + msg)
value_error(msg, f) == [kind |-> "ValueError", meta |-> TRUE, msg |-> msg, field |-> f]
\* a ValueError raised without that prefix
PlainValueError(msg, f) == [kind |-> "ValueError", meta |-> FALSE, msg |-> msg, field |-> f]
\* a TypeError raised by re.match, semantic_version or attr.validators.instance_of
TypeError(msg, f) == [kind |-> "TypeError", meta |-> FALSE, msg |-> msg, field |-> f]

\* and_(v1, v2): v2 runs only when v1 raised nothing
AndThen(e1, e2) == IF e1 # NoErr THEN e1 ELSE e2

\* ---------------------------------------------------------------------------
\* schema.py: CollectionInfo validators
\* ---------------------------------------------------------------------------
_check_required(f, v) ==
    IF ~Truthy(v) THEN value_error("is required", f) ELSE NoErr

_check_name(f, v) ==
    IF ~IsStr(v) THEN TypeError("expected string or bytes-like object", f)
    ELSE IF ~MatchName(v.s) THEN value_error("has invalid format", f)
    ELSE IF Len(v.s) > MAX_LENGTH_NAME
    THEN value_error("must not be greater than MAX_LENGTH_NAME characters", f)
    ELSE NoErr

\* The check of lines 157-172 with the flag taken as unset, as it is when the
\* configuration was read before it changed.
_check_version_format_flag_unset(f, v, c) ==
    IF ~Truthy(v) THEN value_error("Expecting 'version' to be in semantic version format", f)
    ELSE IF ~IsStr(v) THEN TypeError("expected string or bytes-like object", f)
    ELSE IF ~IsSemver(v.s)
    THEN value_error("Expecting 'version' to be in semantic version format", f)
    ELSE IF Len(v.s) > MAX_LENGTH_VERSION
    THEN value_error("must not be greater than MAX_LENGTH_VERSION characters", f)
    ELSE NoErr
_check_version_format(f, v, c) ==
    IF ~Truthy(v) THEN value_error("Expecting 'version' to be in semantic version format", f)
    ELSE IF ~IsStr(v) THEN TypeError("expected string or bytes-like object", f)
    ELSE IF ~IsSemver(v.s)
    THEN value_error("Expecting 'version' to be in semantic version format", f)
    ELSE IF Len(v.s) > MAX_LENGTH_VERSION
    THEN value_error("must not be greater than MAX_LENGTH_VERSION characters", f)
    ELSE IF c.require_v1_or_greater /\ SemverLtOne(v.s)
    THEN value_error("Config is enabled that requires version to be 1.0.0 or greater.", f)
    ELSE NoErr

_check_list_of_str(f, v) ==
    IF ~IsList(v) THEN value_error("Expecting a list of strings", f)
    ELSE IF \E i \in 1..Len(v.items) : ~IsStr(v.items[i])
    THEN value_error("Expecting a list of strings", f)
    ELSE NoErr

\* The list comprehension of line 195: is_valid_license_id on every item in
\* turn; [invalid, cache, loads].
RECURSIVE CheckIds(_, _, _, _, _)
CheckIds(ids, i, c, ok, file) ==
    IF i > Len(ids) THEN [invalid |-> FALSE, cache |-> c, loads |-> 0]
    ELSE LET r == is_valid_license_id(ids[i], c, ok, file)
             rest == CheckIds(ids, i + 1, r.cache, ok, file)
         IN [invalid |-> (~r.result \/ rest.invalid),
             cache |-> rest.cache,
             loads |-> rest.loads + (IF r.loaded THEN 1 ELSE 0)]

\* [err, cache, loads]
_check_licenses(f, v, c, ok, file) ==
    IF \E i \in 1..Len(v.items) : Len(v.items[i].s) > MAX_LENGTH_LICENSE
    THEN [err |-> value_error("Each license must not be greater than MAX_LENGTH_LICENSE characters", f),
          cache |-> c, loads |-> 0]
    ELSE LET r == CheckIds(v.items, 1, c, ok, file)
         IN [err |-> IF r.invalid
                     THEN value_error("Expecting 'license' to be a list of valid SPDX license identifiers", f)
                     ELSE NoErr,
             cache |-> r.cache, loads |-> r.loads]

\* One entry of the dependencies mapping (lines 208-232).
CheckDependency_name_only(f, k, v, self) ==
    IF ~IsStr(k) THEN value_error("Expecting depencency to be string", f)
    ELSE IF ~IsStr(v) THEN value_error("Expecting depencency version to be string", f)
    ELSE LET parts == Split(k.s, ".")
         IN IF Len(parts) # 2 THEN value_error("Invalid dependency format", f)
            ELSE IF ~MatchName(parts[1]) \/ ~MatchName(parts[2])
            THEN value_error("Invalid dependency format: segment", f)
            ELSE IF PyStr(parts[2]) = self.name
            THEN value_error("Cannot have self dependency", f)
            ELSE IF ~IsSimpleSpec(v.s)
            THEN value_error("Dependency version spec range invalid", f)
            ELSE NoErr
CheckDependency(f, k, v, self) ==
    IF ~IsStr(k) THEN value_error("Expecting depencency to be string", f)
    ELSE IF ~IsStr(v) THEN value_error("Expecting depencency version to be string", f)
    ELSE LET parts == Split(k.s, ".")
         IN IF Len(parts) # 2 THEN value_error("Invalid dependency format", f)
            ELSE IF ~MatchName(parts[1]) \/ ~MatchName(parts[2])
            THEN value_error("Invalid dependency format: segment", f)
            ELSE IF PyStr(parts[1]) = self.namespace /\ PyStr(parts[2]) = self.name
            THEN value_error("Cannot have self dependency", f)
            ELSE IF ~IsSimpleSpec(v.s)
            THEN value_error("Dependency version spec range invalid", f)
            ELSE NoErr

RECURSIVE CheckDependencies(_, _, _, _)
\* The loop of lines 207-232 with the self-dependency looked for in the whole
\* mapping before any entry is checked.
CheckDependencies_self_first(f, ps, i, self) ==
    LET own == PyStr(self.namespace.s \o <<".">> \o self.name.s)
        bad == {j \in i..Len(ps) : CheckDependency(f, ps[j].items[1], ps[j].items[2], self) # NoErr}
    IN IF \E j \in i..Len(ps) : ps[j].items[1] = own
       THEN value_error("Cannot have self dependency", f)
       ELSE IF bad = {} THEN NoErr
       ELSE LET j == CHOOSE x \in bad : \A y \in bad : x <= y
            IN CheckDependency(f, ps[j].items[1], ps[j].items[2], self)
CheckDependencies(f, ps, i, self) ==
    IF i > Len(ps) THEN NoErr
    ELSE AndThen(CheckDependency(f, ps[i].items[1], ps[i].items[2], self),
                 CheckDependencies(f, ps, i + 1, self))

_check_dependencies_format(f, deps, self) == CheckDependencies(f, deps.items, 1, self)

\* attr.validators.instance_of(dict)
instance_of_dict_value_error(f, v) ==
    IF ~IsDict(v) THEN value_error("'dependencies' must be a dict", f) ELSE NoErr
instance_of_dict(f, v) ==
    IF ~IsDict(v) THEN TypeError("'dependencies' must be <class 'dict'>", f) ELSE NoErr

\* lines 258-264: the first tag that fails, and how
RECURSIVE CheckEachTag(_, _, _)
CheckEachTag(f, tags, i) ==
    IF i > Len(tags) THEN NoErr
    ELSE IF ~MatchName(tags[i].s) THEN value_error("'tag' has invalid format", f)
    ELSE IF Len(tags[i].s) > MAX_LENGTH_TAG
    THEN value_error("Each tag must not be greater than MAX_LENGTH_TAG characters", f)
    ELSE CheckEachTag(f, tags, i + 1)

_check_tags_empty_list_passes(f, v, c) ==
    IF ~Truthy(v) THEN NoErr
    ELSE IF c.check_required_tags
            /\ ~(\E i \in 1..Len(v.items) : v.items[i].s \in REQUIRED_TAG_LIST)
    THEN value_error("At least one tag required from tag list", f)
    ELSE IF Len(v.items) > MAX_TAGS_COUNT
    THEN value_error("Expecting no more than MAX_TAGS_COUNT tags in metadata", f)
    ELSE CheckEachTag(f, v.items, 1)
_check_tags(f, v, c) ==
    IF c.check_required_tags /\ ~Truthy(v)
    THEN value_error("At least one tag required from tag list", f)
    ELSE IF c.check_required_tags
            /\ ~(\E i \in 1..Len(v.items) : v.items[i].s \in REQUIRED_TAG_LIST)
    THEN value_error("At least one tag required from tag list", f)
    ELSE IF ~Truthy(v) THEN NoErr
    ELSE IF Len(v.items) > MAX_TAGS_COUNT
    THEN value_error("Expecting no more than MAX_TAGS_COUNT tags in metadata", f)
    ELSE CheckEachTag(f, v.items, 1)

_check_non_null_str(f, v) ==
    IF ~IsNone(v) /\ ~IsStr(v) THEN value_error("must be a string", f) ELSE NoErr

_check_max_length_url(f, v) ==
    IF ~Truthy(v) THEN NoErr
    ELSE IF Len(v.s) > MAX_LENGTH_URL
    THEN value_error("must not be greater than MAX_LENGTH_URL characters", f)
    ELSE NoErr

_check_max_length_author(f, v) ==
    IF \E i \in 1..Len(v.items) : Len(v.items[i].s) > MAX_LENGTH_AUTHOR
    THEN value_error("Each author must not be greater than MAX_LENGTH_AUTHOR characters", f)
    ELSE NoErr

\* lines 305-316
_check_license_or_license_file_allows_neither(self) ==
    IF Truthy(self.license) /\ Truthy(self.license_file)
    THEN value_error("The 'license' and 'license_file' keys are mutually exclusive",
                     "__attrs_post_init__")
    ELSE NoErr
_check_license_or_license_file(self) ==
    IF Truthy(self.license) # Truthy(self.license_file) THEN NoErr
    ELSE IF Truthy(self.license) /\ Truthy(self.license_file)
    THEN value_error("The 'license' and 'license_file' keys are mutually exclusive",
                     "__attrs_post_init__")
    ELSE value_error("Valid values for 'license' or 'license_file' are required.",
                     "__attrs_post_init__")

\* CollectionFilename._validator (lines 93-97)
_validator(f, v) ==
    IF ~IsStr(v) THEN TypeError("expected string or bytes-like object", f)
    ELSE IF ~MatchName(v.s) THEN PlainValueError("Invalid namespace or name", f)
    ELSE NoErr

\* convert_none_to_empty_dict
convert_none_to_empty_dict(val) == IF IsNone(val) THEN PyDict(<<>>) ELSE val

\* ---------------------------------------------------------------------------
\* The validators of each field, in the order attrs composes them: validator=
\* first, then the decorated methods in the order of their definition.
\* ---------------------------------------------------------------------------
InfoFields_tags_before_authors ==
    <<"namespace", "name", "version", "license", "description", "repository",
      "documentation", "homepage", "issues", "tags", "authors", "license_file",
      "readme", "dependencies">>
InfoFields == <<"namespace", "name", "version", "license", "description",
                "repository", "documentation", "homepage", "issues", "authors",
                "tags", "license_file", "readme", "dependencies">>
FilenameFields == <<"namespace", "name", "version">>

FieldsOf(k) == IF k = "CollectionInfo" THEN InfoFields ELSE FilenameFields

Pure(e, c) == [err |-> e, cache |-> c, loads |-> 0]

\* [err, cache, loads] of running field f's validators on instance self
InfoValidators(f, self, c, conf, ok, file) ==
    LET v == self[f]
    IN CASE f \in {"namespace", "name"} ->
              Pure(AndThen(_check_required(f, v), _check_name(f, v)), c)
         [] f = "version" ->
              Pure(AndThen(_check_required(f, v), _check_version_format(f, v, conf)), c)
         [] f = "license" ->
              IF _check_list_of_str(f, v) # NoErr
              THEN Pure(_check_list_of_str(f, v), c)
              ELSE _check_licenses(f, v, c, ok, file)
         [] f \in {"description", "license_file"} ->
              Pure(_check_non_null_str(f, v), c)
         [] f = "repository" ->
              Pure(AndThen(_check_required(f, v),
                   AndThen(_check_non_null_str(f, v),
                   AndThen(_check_non_null_str(f, v), _check_max_length_url(f, v)))), c)
         [] f \in {"documentation", "homepage", "issues"} ->
              Pure(AndThen(_check_non_null_str(f, v), _check_max_length_url(f, v)), c)
         [] f = "authors" ->
              Pure(AndThen(_check_required(f, v),
                   AndThen(_check_list_of_str(f, v), _check_max_length_author(f, v))), c)
         [] f = "tags" ->
              Pure(AndThen(_check_list_of_str(f, v), _check_tags(f, v, conf)), c)
         [] f = "readme" ->
              Pure(_check_required(f, v), c)
         [] f = "dependencies" ->
              Pure(AndThen(instance_of_dict(f, v), _check_dependencies_format(f, v, self)), c)

FilenameValidators(f, self, c) ==
    IF f \in {"namespace", "name"} THEN Pure(_validator(f, self[f]), c) ELSE Pure(NoErr, c)

\* ---- state of the other components while they are not running ------------
HeapEmpty ==
    /\ heap = <<>>
    /\ setlog = [n |-> 0, frozenError |-> FALSE]

ThreadsIdle ==
    /\ tpc = [t \in 1..NumThreads |-> "idle"]
    /\ targ = [t \in 1..NumThreads |-> PyNone]
    /\ ttmp = [t \in 1..NumThreads |-> {}]

CatalogFresh ==
    /\ spdx = [isNone |-> TRUE, tbl |-> {}]
    /\ loads = 0
    /\ writes = 0
    /\ calls = 0
    /\ lastCall = NoCall
    /\ loadFailed = FALSE

NoObj == [some |-> FALSE, fields |-> <<>>]

\* an exception together with the stage of __init__ that raised it
Staged(e, st) ==
    [kind |-> e.kind, meta |-> e.meta, msg |-> e.msg, field |-> e.field, stage |-> st]

CtorIdle ==
    /\ cls = "none"
    /\ inp = <<>>
    /\ pc = "idle"
    /\ fld = 0
    /\ ran = <<>>
    /\ err = Staged(NoErr, "none")
    /\ obj = NoObj

\* ---------------------------------------------------------------------------
\* Inputs of the constructors
\* ---------------------------------------------------------------------------
ns == <<"n", "s">>
nm == <<"n", "m">>
ot == <<"o", "t">>
v100 == <<"1", ".", "0", ".", "0">>
v090 == <<"0", ".", "9", ".", "0">>
five == PyInt(<<"5">>)
nsnm == <<"n", "s", ".", "n", "m">>
otnm == <<"o", "t", ".", "n", "m">>

\* A CollectionInfo input on which every check passes.
BaseInfo ==
    <<PyStr(ns), PyStr(nm), PyStr(v100), PyList(<<PyStr(MIT)>>), PyNone,
      PyStr(<<"r">>), PyNone, PyNone, PyNone, PyList(<<PyStr(<<"a">>)>>),
      PyList(<<PyStr(<<"t", "o", "o", "l", "s">>)>>), PyNone, PyStr(<<"R">>), PyDict(<<>>)>>

\* Other values of each field, the field's position in InfoFields.
InfoAlts ==
    << \* namespace
       {PyNone, PyStr(<<"N">>), five, PyStr(ot)},
       \* name
       {PyStr(Rep("a", MAX_LENGTH_NAME + 1)), five, PyStr(ot)},
       \* version
       {PyStr(<<"1", ".", "x">>), PyStr(v090), five,
        PyStr(<<"1", ".", "0", ".">> \o Rep("1", MAX_LENGTH_VERSION - 3))},
       \* license
       {PyList(<<>>), PyList(<<PyStr(MIT), PyStr(BAD)>>), PyList(<<PyStr(OLD)>>), PyNone,
        PyList(<<PyStr(Rep("L", MAX_LENGTH_LICENSE + 1))>>)},
       \* description
       {five},
       \* repository
       {PyNone, PyStr(Rep("u", MAX_LENGTH_URL + 1))},
       \* documentation
       {five},
       \* homepage
       {five},
       \* issues
       {five},
       \* authors
       {PyList(<<>>), PyStr(<<"a">>), PyList(<<PyStr(Rep("a", MAX_LENGTH_AUTHOR + 1))>>)},
       \* tags
       {PyList(<<>>), PyList(<<PyStr(<<"n", "t">>)>>), PyList(<<PyStr(<<"N">>)>>),
        PyList(Rep(PyStr(<<"n", "t">>), MAX_TAGS_COUNT + 1)),
        PyList(<<PyStr(Rep("t", MAX_LENGTH_TAG + 1))>>)},
       \* license_file
       {PyStr(<<"L">>), five, PyStr(<<>>)},
       \* readme
       {PyNone, five},
       \* dependencies
       {PyNone,
        PyStr(<<"x">>),
        PyDict(<<PyPair(PyStr(nsnm), PyStr(v100))>>),
        PyDict(<<PyPair(PyStr(nsnm), five)>>),
        PyDict(<<PyPair(PyStr(nsnm), PyStr(<<"b", "a", "d">>))>>),
        PyDict(<<PyPair(PyStr(ns), PyStr(v100))>>),
        PyDict(<<PyPair(five, PyStr(v100))>>),
        PyDict(<<PyPair(PyStr(<<"N", ".", "n", "m">>), PyStr(v100))>>),
        PyDict(<<PyPair(PyStr(otnm), PyStr(<<">", "=", "1", ".", "0", ",", "<", "2">>))>>),
        PyDict(<<PyPair(PyStr(otnm), PyStr(<<"b", "a", "d">>)),
                 PyPair(PyStr(nsnm), PyStr(v100))>>)} >>

\* Value sequences from field i on with at most k fields off the base.
RECURSIVE Variants(_, _)
Variants(i, k) ==
    IF i > Len(InfoFields) THEN {<<>>}
    ELSE {<<BaseInfo[i]>> \o r : r \in Variants(i + 1, k)}
         \cup (IF k = 0 THEN {}
               ELSE {<<a>> \o r : a \in InfoAlts[i], r \in Variants(i + 1, k - 1)})

FieldIndex(fs, f) == CHOOSE i \in 1..Len(fs) : fs[i] = f
AsFields(fs, vals) == [f \in {fs[i] : i \in 1..Len(fs)} |-> vals[FieldIndex(fs, f)]]

InfoInputs == {AsFields(InfoFields, vals) : vals \in Variants(1, MaxChanged)}

FilenameInputs ==
    [namespace : {PyStr(ns), PyStr(<<"N">>)},
     name : {PyStr(nm), PyStr(<<"N">>)},
     version : {PyStr(v100), PyStr(<<"1", ".", "x">>)}]

Configs == [require_v1_or_greater : BOOLEAN, check_required_tags : BOOLEAN]

\* ---------------------------------------------------------------------------
\* schema.py: construction of an instance, as attrs generates __init__: every
\* field is assigned (through its converter), then the validators run field by
\* field in declaration order, then __attrs_post_init__.
\* ---------------------------------------------------------------------------
Min(a, b) == IF a < b THEN a ELSE b

\* CollectionInfo(**input): the assignments
Begin(input) ==
    /\ pc = "idle"
    /\ cls' = "CollectionInfo"
    /\ inp' = [input EXCEPT !.dependencies = convert_none_to_empty_dict(@)]
    /\ pc' = "validate"
    /\ fld' = 1
    /\ ran' = <<>>
    /\ err' = Staged(NoErr, "none")
    /\ obj' = NoObj
    /\ UNCHANGED <<cfg, catVars, thrVars, heapVars>>

\* CollectionFilename(**input): the assignments; version goes through
\* converter=semantic_version.Version, which raises on a malformed version
FnBegin(input) ==
    /\ pc = "idle"
    /\ cls' = "CollectionFilename"
    /\ inp' = input
    /\ ran' = <<>>
    /\ obj' = NoObj
    /\ IF IsSemver(input.version.s)
       THEN /\ pc' = "validate"
            /\ fld' = 1
            /\ err' = Staged(NoErr, "none")
       ELSE /\ pc' = "raised"
            /\ fld' = 0
            /\ err' = Staged(PlainValueError("Invalid version string", "version"), "converter")
    /\ UNCHANGED <<cfg, catVars, thrVars, heapVars>>

\* The validators of the next field.
Validators(k, f, self, c, conf, ok, file) ==
    IF k = "CollectionInfo" THEN InfoValidators(f, self, c, conf, ok, file)
    ELSE FilenameValidators(f, self, c)

Validate ==
    /\ pc = "validate"
    /\ LET f == FieldsOf(cls)[fld]
           r == Validators(cls, f, inp, spdx, cfg, diskOk, disk)
       IN /\ ran' = Append(ran, f)
          /\ spdx' = r.cache
          /\ loads' = Min(loads + r.loads, MaxCalls)
          /\ writes' = Min(writes + r.loads, MaxCalls)
          /\ loadFailed' = (loadFailed \/ (r.loads > 0 /\ ~diskOk))
          /\ IF r.err # NoErr
             THEN /\ pc' = "raised"
                  /\ err' = Staged(r.err, "validator")
                  /\ UNCHANGED <<fld, obj>>
             ELSE IF fld < Len(FieldsOf(cls))
             THEN /\ fld' = fld + 1
                  /\ UNCHANGED <<pc, err, obj>>
             ELSE IF cls = "CollectionInfo"
             THEN /\ pc' = "post"
                  /\ UNCHANGED <<fld, err, obj>>
             ELSE /\ pc' = "returned"
                  /\ obj' = [some |-> TRUE, fields |-> inp]
                  /\ UNCHANGED <<fld, err>>
    /\ UNCHANGED <<cfg, cls, inp, diskOk, disk, calls, lastCall, thrVars, heapVars>>

\* CollectionInfo.__attrs_post_init__, then __init__ returns
PostInit ==
    /\ pc = "post"
    /\ LET e == _check_license_or_license_file(inp)
       IN IF e # NoErr
          THEN /\ pc' = "raised"
               /\ err' = Staged(e, "post")
               /\ obj' = obj
          ELSE /\ pc' = "returned"
               /\ obj' = [some |-> TRUE, fields |-> inp]
               /\ err' = err
    /\ UNCHANGED <<cfg, cls, inp, fld, ran, catVars, thrVars, heapVars>>

\* The caller has taken the instance or handled the exception.
Finish ==
    /\ pc \in {"returned", "raised"}
    /\ cls' = "none"
    /\ inp' = <<>>
    /\ pc' = "idle"
    /\ fld' = 0
    /\ ran' = <<>>
    /\ err' = Staged(NoErr, "none")
    /\ obj' = NoObj
    /\ UNCHANGED <<cfg, catVars, thrVars, heapVars>>

\* The configuration file is edited: config.ConfigFile.load() yields c from now on.
SetConfig(c) ==
    /\ c # cfg
    /\ cfg' = c
    /\ UNCHANGED <<cls, inp, pc, fld, ran, err, obj, catVars, thrVars, heapVars>>

\* ---- single caller: is_valid_license_id runs to completion ----------
Call(id) ==
    /\ calls < MaxCalls
    /\ LET r == is_valid_license_id(id, spdx, diskOk, disk)
       IN /\ spdx' = r.cache
          /\ loads' = loads + (IF r.loaded THEN 1 ELSE 0)
          /\ writes' = writes + (IF r.loaded THEN 1 ELSE 0)
          /\ loadFailed' = (loadFailed \/ (r.loaded /\ ~diskOk))
          /\ lastCall' = [made |-> TRUE, id |-> id, result |-> r.result,
                          afterFail |-> loadFailed]
    /\ calls' = calls + 1
    /\ UNCHANGED <<diskOk, disk, thrVars, ctorVars, heapVars>>

\* The environment: the file becomes unreadable, or readable again.
DiskFails ==
    /\ diskOk
    /\ diskOk' = FALSE
    /\ UNCHANGED <<spdx, disk, loads, writes, calls, lastCall, loadFailed,
                   thrVars, ctorVars, heapVars>>

DiskRecovers ==
    /\ ~diskOk
    /\ diskOk' = TRUE
    /\ UNCHANGED <<spdx, disk, loads, writes, calls, lastCall, loadFailed,
                   thrVars, ctorVars, heapVars>>

InitCatalog ==
    /\ CatalogFresh
    /\ diskOk \in BOOLEAN
    /\ disk \in Tables
    /\ ThreadsIdle
    /\ cfg = [require_v1_or_greater |-> FALSE, check_required_tags |-> FALSE]
    /\ CtorIdle
    /\ HeapEmpty

NextCatalog ==
    \/ \E id \in CallIds : Call(id)
    \/ DiskFails
    \/ DiskRecovers

SpecCatalog == InitCatalog /\ [][NextCatalog]_vars

\* ---- concurrent callers: is_valid_license_id line by line ---------------
\* line 37-40: entry and the None test (local to the caller)
TStart(t, id) ==
    /\ tpc[t] = "idle"
    /\ calls < MaxCalls
    /\ calls' = calls + 1
    /\ targ' = [targ EXCEPT ![t] = id]
    /\ IF IsNone(id)
       THEN /\ tpc' = tpc
            /\ lastCall' = [made |-> TRUE, id |-> id, result |-> FALSE,
                            afterFail |-> loadFailed]
       ELSE /\ tpc' = [tpc EXCEPT ![t] = "l31"]
            /\ lastCall' = lastCall
    /\ UNCHANGED <<spdx, diskOk, disk, loads, writes, loadFailed, ttmp,
                   ctorVars, heapVars>>

\* line 31: if not _SPDX_LICENSES
TTest(t) ==
    /\ tpc[t] = "l31"
    /\ tpc' = [tpc EXCEPT ![t] = IF CacheFalsy(spdx) THEN "l32_call" ELSE "l34"]
    /\ UNCHANGED <<catVars, targ, ttmp, ctorVars, heapVars>>

\* line 32, right-hand side: _load_spdx()
TLoad(t) ==
    /\ tpc[t] = "l32_call"
    /\ ttmp' = [ttmp EXCEPT ![t] = _load_spdx(diskOk, disk)]
    /\ loads' = loads + 1
    /\ loadFailed' = (loadFailed \/ ~diskOk)
    /\ tpc' = [tpc EXCEPT ![t] = "l32_store"]
    /\ UNCHANGED <<spdx, diskOk, disk, writes, calls, lastCall, targ,
                   ctorVars, heapVars>>

\* line 32, the assignment to the global
TStore(t) ==
    /\ tpc[t] = "l32_store"
    /\ spdx' = [isNone |-> FALSE, tbl |-> ttmp[t]]
    /\ writes' = writes + 1
    /\ tpc' = [tpc EXCEPT ![t] = "l34"]
    /\ UNCHANGED <<diskOk, disk, loads, calls, lastCall, loadFailed, targ, ttmp,
                   ctorVars, heapVars>>

\* line 34 and lines 43-51: read the global, look the id up, return
TReturn(t) ==
    /\ tpc[t] = "l34"
    /\ lastCall' = [made |-> TRUE, id |-> targ[t],
                    result |-> Lookup(spdx.tbl, targ[t].s), afterFail |-> loadFailed]
    /\ tpc' = [tpc EXCEPT ![t] = "idle"]
    /\ UNCHANGED <<spdx, diskOk, disk, loads, writes, calls, loadFailed, targ, ttmp,
                   ctorVars, heapVars>>

InitThreads ==
    /\ CatalogFresh
    /\ diskOk = TRUE
    /\ disk = BundledTable
    /\ ThreadsIdle
    /\ cfg = [require_v1_or_greater |-> FALSE, check_required_tags |-> FALSE]
    /\ CtorIdle
    /\ HeapEmpty

NextThreads ==
    \E t \in 1..NumThreads :
        \/ \E id \in CallIds : TStart(t, id)
        \/ TTest(t)
        \/ TLoad(t)
        \/ TStore(t)
        \/ TReturn(t)

SpecThreads == InitThreads /\ [][NextThreads]_vars

\* ---------------------------------------------------------------------------
\* schema.py: instances after construction. @attr.s(frozen=True) makes
\* attribute assignment raise FrozenInstanceError; CollectionFilename
\* (@attr.s(slots=True)) and Content (@attr.s) are declared without it.
\* ---------------------------------------------------------------------------
Frozen_never(k) == FALSE
Frozen(k) == k \in {"CollectionInfo", "CollectionArtifactFile", "RenderedDocFile"}

\* dict.get(key, None)
Get(d, key) ==
    IF \E i \in 1..Len(d.items) : d.items[i].items[1] = PyStr(key)
    THEN d.items[CHOOSE i \in 1..Len(d.items) : d.items[i].items[1] = PyStr(key)].items[2]
    ELSE PyNone

doc == <<"d", "o", "c">>
short_description == <<"s", "h", "o", "r", "t", "_", "d", "e", "s", "c", "r", "i", "p", "t", "i", "o", "n">>

\* Content.__attrs_post_init__ (lines 632-638): the fields it leaves
ContentPostInit(self) ==
    IF ~Truthy(self.doc_strings) THEN self
    ELSE IF ~Truthy(Get(self.doc_strings, doc)) THEN self
    ELSE [self EXCEPT !.description = Get(Get(self.doc_strings, doc), short_description)]

\* Every validator and the post-init check of CollectionInfo pass on input.
RECURSIVE InfoFieldsPass(_, _)
InfoFieldsPass(input, i) ==
    \/ i > Len(InfoFields)
    \/ /\ InfoValidators(InfoFields[i], input, [isNone |-> FALSE, tbl |-> BundledTable],
                         [require_v1_or_greater |-> FALSE, check_required_tags |-> FALSE],
                         TRUE, BundledTable).err = NoErr
       /\ InfoFieldsPass(input, i + 1)

InfoAccepted(input) ==
    LET self == [input EXCEPT !.dependencies = convert_none_to_empty_dict(@)]
    IN InfoFieldsPass(self, 1) /\ _check_license_or_license_file(self) = NoErr

FilenameAccepted(input) ==
    /\ IsSemver(input.version.s)
    /\ _validator("namespace", input.namespace) = NoErr
    /\ _validator("name", input.name) = NoErr

\* Arguments instances are created from, per class.
ContentInputs ==
    [name : {PyStr(nm)}, content_type : {PyStr(<<"r">>)},
     doc_strings : {PyDict(<<>>),
                    PyDict(<<PyPair(PyStr(doc), PyDict(<<>>))>>),
                    PyDict(<<PyPair(PyStr(doc), PyDict(<<PyPair(PyStr(<<"x">>), five)>>))>>),
                    PyDict(<<PyPair(PyStr(doc),
                        PyDict(<<PyPair(PyStr(short_description), PyStr(<<"s">>))>>))>>)},
     description : {PyStr(<<"d">>)},
     readme_file : {PyNone}, readme_html : {PyNone}]

ArtifactFileInputs ==
    [name : {PyStr(<<"f">>)}, ftype : {PyStr(<<"f">>)}, src_name : {PyNone},
     chksum_type : {PyStr(<<"s">>)}, chksum_sha256 : {PyNone}, format : {PyInt(<<"1">>)}]

RenderedDocFileInputs == [name : {PyStr(<<"R">>)}, html : {PyNone}]

HeapInfoInputs ==
    {x \in {AsFields(InfoFields, BaseInfo),
            [AsFields(InfoFields, BaseInfo) EXCEPT !.dependencies = PyNone]} : InfoAccepted(x)}

HeapFilenameInputs == {x \in FilenameInputs : FilenameAccepted(x)}

Instance(k, fields, given) ==
    [cls |-> k, fields |-> fields, given |-> given, touched |-> FALSE]

\* A constructor call that succeeds; the instance is kept.
New(k, input) ==
    /\ Len(heap) < MaxHeap
    /\ heap' = Append(heap,
          CASE k = "Content" -> Instance(k, ContentPostInit(input), input)
            [] k = "CollectionInfo" ->
                 LET self == [input EXCEPT !.dependencies = convert_none_to_empty_dict(@)]
                 IN Instance(k, self, self)
            [] OTHER -> Instance(k, input, input))
    /\ UNCHANGED <<setlog, catVars, thrVars, ctorVars>>

\* instance.f = v on a frozen instance: FrozenInstanceError, nothing changes
SetAttrRejected(i, f, v) ==
    /\ setlog.n < MaxSets
    /\ Frozen(heap[i].cls)
    /\ setlog' = [n |-> setlog.n + 1, frozenError |-> TRUE]
    /\ UNCHANGED <<heap, catVars, thrVars, ctorVars>>

\* instance.f = v on an instance that is not frozen
SetAttr(i, f, v) ==
    /\ setlog.n < MaxSets
    /\ ~Frozen(heap[i].cls)
    /\ heap' = [heap EXCEPT ![i] = [@ EXCEPT !.fields = [@ EXCEPT ![f] = v],
                                              !.touched = TRUE]]
    /\ setlog' = [setlog EXCEPT !.n = @ + 1]
    /\ UNCHANGED <<catVars, thrVars, ctorVars>>

AssignedValues == {PyStr(<<"z">>)}

InitEntities ==
    /\ CatalogFresh
    /\ diskOk = TRUE
    /\ disk = BundledTable
    /\ ThreadsIdle
    /\ cfg = [require_v1_or_greater |-> FALSE, check_required_tags |-> FALSE]
    /\ CtorIdle
    /\ HeapEmpty

NextEntities ==
    \/ \E x \in ContentInputs : New("Content", x)
    \/ \E x \in HeapFilenameInputs : New("CollectionFilename", x)
    \/ \E x \in ArtifactFileInputs : New("CollectionArtifactFile", x)
    \/ \E x \in RenderedDocFileInputs : New("RenderedDocFile", x)
    \/ \E x \in HeapInfoInputs : New("CollectionInfo", x)
    \/ \E i \in 1..Len(heap) : \E f \in DOMAIN heap[i].fields : \E v \in AssignedValues :
          \/ SetAttrRejected(i, f, v)
          \/ SetAttr(i, f, v)

SpecEntities == InitEntities /\ [][NextEntities]_vars

\* ---- one process constructing value objects -----------------------------
Init ==
    /\ CatalogFresh
    /\ diskOk = TRUE
    /\ disk = BundledTable
    /\ ThreadsIdle
    /\ cfg \in Configs
    /\ CtorIdle
    /\ HeapEmpty

Next ==
    \/ pc = "idle" /\ \E input \in InfoInputs : Begin(input)
    \/ pc = "idle" /\ \E input \in FilenameInputs : FnBegin(input)
    \/ Validate
    \/ PostInit
    \/ Finish
    \/ \E c \in Configs : SetConfig(c)

Spec == Init /\ [][Next]_vars

\* ---------------------------------------------------------------------------
\* Claims about the license catalog
\* ---------------------------------------------------------------------------

\* C1: over any sequence of is_valid_license_id calls of one process the file
\* is read at most once, whether the first load succeeded or failed.
C1_LoadedAtMostOnce == loads <= 1

\* C2: when callers make their first calls concurrently, at most one of them
\* performs the load and the cache variable is written at most once.
C2_SingleInitialization == loads <= 1 /\ writes <= 1

\* C3: once a load has failed, every later is_valid_license_id call returns
\* false, even if the file has become readable in the meantime.
C3_InvalidAfterFailedLoad ==
    (lastCall.made /\ lastCall.afterFail) => lastCall.result = FALSE

\* C4: is_valid_license_id(id) is false for None, false for an id that is not
\* a key of the loaded table, false for a key marked deprecated, and true in
\* every other case.
C4_IsValidResult ==
    lastCall.made =>
        (lastCall.result <=>
            /\ ~IsNone(lastCall.id)
            /\ \E e \in spdx.tbl : e.id = lastCall.id.s /\ e.dep # "yes")

C4_Witness ==
    /\ lastCall.made
    /\ lastCall.id = PyStr(OLD)
    /\ [id |-> OLD, dep |-> "yes"] \in spdx.tbl
    /\ lastCall.result = FALSE
    /\ loads = 1

\* ---------------------------------------------------------------------------
\* Claims about the construction of value objects
\* ---------------------------------------------------------------------------
IsPrefix(a, b) == Len(a) <= Len(b) /\ \A i \in 1..Len(a) : a[i] = b[i]

\* The declaration order the specification gives for CollectionInfo.
DeclaredOrder ==
    IF cls = "CollectionInfo"
    THEN <<"namespace", "name", "version", "license", "description", "repository",
           "documentation", "homepage", "issues", "authors", "tags", "license_file",
           "readme", "dependencies">>
    ELSE <<"namespace", "name", "version">>

Position(f) == CHOOSE i \in 1..Len(DeclaredOrder) : DeclaredOrder[i] = f

\* Field f of the instance under construction fails its own checks (converter
\* and validators) whatever the configuration is.
FieldInvalid(f) ==
    IF cls = "CollectionFilename" /\ f = "version" THEN ~IsSemver(inp[f].s)
    ELSE \A c \in Configs : Validators(cls, f, inp, spdx, c, diskOk, disk).err # NoErr

RaisedByField == pc = "raised" /\ err.stage \in {"converter", "validator"}

\* C5 as stated: the checks of the fields run in declaration order and fail
\* fast, so the failure raised is that of the earliest-declared invalid field
\* and no check of a later field has run.
C5_EarliestInvalidFieldRaises ==
    RaisedByField =>
        /\ \A j \in 1..(Position(err.field) - 1) : ~FieldInvalid(DeclaredOrder[j])
        /\ FieldInvalid(err.field)

\* C5 as amended: converters run during the assignments, before any validator
\* (a failing converter raises although an earlier-declared field is invalid);
\* the validators then run in declaration order and fail fast: the exception
\* is the one the failing field's validators raise, every earlier field passes
\* its validators, and no validator of a later field has run.
C5_ValidatorsInOrderFailFast ==
    /\ cls # "none" => IsPrefix(ran, DeclaredOrder)
    /\ (pc = "raised" /\ err.stage = "validator") =>
          /\ ran = SubSeq(DeclaredOrder, 1, Position(err.field))
          /\ \A j \in 1..(Position(err.field) - 1) :
                \E c \in Configs :
                    Validators(cls, DeclaredOrder[j], inp, spdx, c, diskOk, disk).err = NoErr
          /\ \E c \in Configs :
                err = Staged(Validators(cls, err.field, inp, spdx, c, diskOk, disk).err,
                             "validator")
    /\ (pc = "raised" /\ err.stage = "converter") =>
          /\ ran = <<>>
          /\ cls = "CollectionFilename"
          /\ err.field = "version"
    /\ (pc \in {"post", "returned"}) => ran = DeclaredOrder

C5_Witness ==
    /\ pc = "raised"
    /\ cls = "CollectionInfo"
    /\ inp.version = PyStr(<<"1", ".", "x">>)
    /\ inp.tags = PyList(<<PyStr(<<"N">>)>>)
    /\ err.field = "version"
    /\ ran = <<"namespace", "name", "version">>

\* The exception comes from ill-typed input rather than from a failed rule.
IllTyped ==
    \/ err.field = "dependencies" /\ ~IsDict(inp.dependencies)
    \/ /\ err.field \in {"namespace", "name", "version"}
       /\ Truthy(inp[err.field])
       /\ ~IsStr(inp[err.field])

\* C7 as stated: every rejection of a CollectionInfo is a ValueError whose
\* message starts with "Invalid collection metadata." and no instance is returned.
C7_OnlyInvalidMetadataErrors ==
    (cls = "CollectionInfo" /\ pc = "raised") =>
        /\ err.kind = "ValueError"
        /\ err.meta
        /\ ~obj.some

\* C7 as amended: a rejection by one of CollectionInfo's rules is such a
\* ValueError; a dependencies value that is not a mapping and a truthy
\* non-string namespace, name or version are rejected with a TypeError;
\* in both cases no instance is returned.
C7_MetadataErrorOrTypeError ==
    (cls = "CollectionInfo" /\ pc = "raised") =>
        /\ ~obj.some
        /\ IllTyped => (err.kind = "TypeError" /\ ~err.meta)
        /\ ~IllTyped => (err.kind = "ValueError" /\ err.meta)

C7_Witness ==
    /\ cls = "CollectionInfo"
    /\ pc = "raised"
    /\ inp.dependencies = PyStr(<<"x">>)
    /\ err.field = "dependencies"
    /\ err.kind = "TypeError"

\* C8: when every field-level check of a CollectionInfo passes, construction
\* fails if license and license_file are both non-empty, fails if both are
\* empty, and succeeds if exactly one of them is populated.
C8_LicenseXorLicenseFile ==
    (cls = "CollectionInfo" /\ ran = InfoFields /\ pc \in {"returned", "raised"}
       /\ err.stage # "validator") =>
        /\ (Truthy(inp.license) /\ Truthy(inp.license_file)) =>
              /\ pc = "raised"
              /\ err.msg = "The 'license' and 'license_file' keys are mutually exclusive"
        /\ (~Truthy(inp.license) /\ ~Truthy(inp.license_file)) =>
              /\ pc = "raised"
              /\ err.msg = "Valid values for 'license' or 'license_file' are required."
        /\ (Truthy(inp.license) # Truthy(inp.license_file)) =>
              /\ pc = "returned"
              /\ obj = [some |-> TRUE, fields |-> inp]

C8_Witness ==
    /\ cls = "CollectionInfo"
    /\ pc = "raised"
    /\ err.stage = "post"
    /\ inp.license = PyList(<<>>)
    /\ inp.license_file = PyStr(<<>>)

\* The collection's own "namespace.name".
Label == inp.namespace.s \o <<".">> \o inp.name.s

\* Entry p of the dependencies mapping is well-formed: a string key that
\* splits into exactly two identifier segments and a string value that parses
\* as a version range expression.
WellFormedEntry(p) ==
    /\ IsStr(p.items[1])
    /\ IsStr(p.items[2])
    /\ Len(Split(p.items[1].s, ".")) = 2
    /\ \A k \in 1..2 : MatchName(Split(p.items[1].s, ".")[k])
    /\ IsSimpleSpec(p.items[2].s)

DependenciesChecked ==
    /\ cls = "CollectionInfo"
    /\ Len(ran) = Len(InfoFields)
    /\ IsDict(inp.dependencies)

\* C9: with every other field valid, a dependencies mapping holding a key
\* equal to the collection's own "namespace.name" (version spec a string,
\* earlier entries well-formed) is rejected with the self-dependency failure;
\* when every entry is well-formed and none has that key, the dependencies
\* are accepted.
C9_SelfDependency ==
    DependenciesChecked =>
        LET deps == inp.dependencies.items
        IN /\ (\E i \in 1..Len(deps) :
                  /\ deps[i].items[1] = PyStr(Label)
                  /\ IsStr(deps[i].items[2])
                  /\ \A j \in 1..(i - 1) :
                        WellFormedEntry(deps[j]) /\ deps[j].items[1] # PyStr(Label))
              => (pc = "raised" /\ err.field = "dependencies"
                    /\ err.msg = "Cannot have self dependency")
           /\ (\A i \in 1..Len(deps) :
                  WellFormedEntry(deps[i]) /\ deps[i].items[1] # PyStr(Label))
              => ~(pc = "raised" /\ err.field = "dependencies")

C9_Witness ==
    /\ DependenciesChecked
    /\ inp.dependencies = PyDict(<<PyPair(PyStr(nsnm), PyStr(v100))>>)
    /\ inp.namespace = PyStr(ns)
    /\ inp.name = PyStr(nm)
    /\ pc = "raised"
    /\ err.msg = "Cannot have self dependency"

\* The tags are a list of strings none of which is in REQUIRED_TAG_LIST.
NoRequiredTag(v) ==
    /\ IsList(v)
    /\ \A i \in 1..Len(v.items) : IsStr(v.items[i]) /\ v.items[i].s \notin REQUIRED_TAG_LIST

\* The tags pass the checks that do not depend on the policy.
TagsWellFormed(v) ==
    /\ Len(v.items) <= MAX_TAGS_COUNT
    /\ \A i \in 1..Len(v.items) :
          MatchName(v.items[i].s) /\ Len(v.items[i].s) <= MAX_LENGTH_TAG

\* The step that runs the validators of CollectionInfo.tags.
TagsStep ==
    /\ cls = "CollectionInfo"
    /\ pc = "validate"
    /\ InfoFields[fld] = "tags"
    /\ ran' = Append(ran, "tags")

\* C10: when the tags check runs on a tags list holding no tag of the required
\* list (the empty list included), it raises the required-tag error if the
\* required-tag policy is enabled, and accepts well-formed tags if it is disabled.
C10_RequiredTagPolicy ==
    [][(TagsStep /\ NoRequiredTag(inp.tags)) =>
          /\ cfg.check_required_tags =>
                /\ pc' = "raised"
                /\ err' = Staged(value_error("At least one tag required from tag list", "tags"),
                                 "validator")
          /\ (~cfg.check_required_tags /\ TagsWellFormed(inp.tags)) =>
                /\ pc' = "validate"
                /\ err'.kind = "none"]_vars

C10_Witness ==
    /\ cls = "CollectionInfo"
    /\ pc = "raised"
    /\ inp.tags = PyList(<<>>)
    /\ err.field = "tags"
    /\ err.msg = "At least one tag required from tag list"

\* C6 as stated: every entity is immutable; once an instance is constructed
\* no field changes, and the constructor leaves every field at the value given.
C6_AllEntitiesImmutable ==
    \A i \in 1..Len(heap) : heap[i].fields = heap[i].given

\* C6 as amended: the entities declared frozen are immutable (assignment to
\* an attribute raises and changes nothing, and the constructor leaves every
\* field at the value given); CollectionFilename and Content are not frozen,
\* so their attributes can be reassigned, and the constructor of Content
\* replaces description by the short description of doc_strings["doc"] when
\* that entry is non-empty.
C6_FrozenEntitiesImmutable ==
    \A i \in 1..Len(heap) :
        /\ Frozen(heap[i].cls) => (heap[i].fields = heap[i].given /\ ~heap[i].touched)
        /\ (heap[i].cls \in {"CollectionInfo", "CollectionArtifactFile", "RenderedDocFile"})
              => heap[i].fields = heap[i].given
        /\ (heap[i].cls = "CollectionFilename" /\ ~heap[i].touched)
              => heap[i].fields = heap[i].given
        /\ (heap[i].cls = "Content" /\ ~heap[i].touched)
              => heap[i].fields = ContentPostInit(heap[i].given)

C6_Witness ==
    /\ setlog.frozenError
    /\ \E i \in 1..Len(heap) : heap[i].cls = "CollectionInfo"
    /\ \E i \in 1..Len(heap) :
          /\ heap[i].cls = "Content"
          /\ heap[i].touched
          /\ heap[i].fields # heap[i].given

\* ---------------------------------------------------------------------------
\* schema.py: LegacyMetadata, the dependencies of a legacy role
\* ---------------------------------------------------------------------------
MaxDeps == 2

\* exc.LegacyRoleSchemaError(msg)
LegacyRoleSchemaError(msg, f) ==
    [kind |-> "LegacyRoleSchemaError", meta |-> FALSE, msg |-> msg, field |-> f]
\* the value a method is looked up on has no such method
AttributeError(msg, f) == [kind |-> "AttributeError", meta |-> FALSE, msg |-> msg, field |-> f]

role == <<"r", "o", "l", "e">>
name == <<"n", "a", "m", "e">>
src == <<"s", "r", "c">>

\* key in dependency
HasKey(d, key) == \E i \in 1..Len(d.items) : d.items[i].items[1] = PyStr(key)

\* The lookup of lines 550-555, with another priority order.
Resolved_src_first(dependency) ==
    IF ~IsDict(dependency) THEN [found |-> TRUE, value |-> dependency]
    ELSE IF HasKey(dependency, src) THEN [found |-> TRUE, value |-> Get(dependency, src)]
    ELSE IF HasKey(dependency, name) THEN [found |-> TRUE, value |-> Get(dependency, name)]
    ELSE IF HasKey(dependency, role) THEN [found |-> TRUE, value |-> Get(dependency, role)]
    ELSE [found |-> FALSE, value |-> dependency]

\* _dependency of lines 548-555: the entry itself, or the value under the
\* first of role, name, src the mapping has
Resolved(dependency) ==
    IF ~IsDict(dependency) THEN [found |-> TRUE, value |-> dependency]
    ELSE IF HasKey(dependency, role) THEN [found |-> TRUE, value |-> Get(dependency, role)]
    ELSE IF HasKey(dependency, name) THEN [found |-> TRUE, value |-> Get(dependency, name)]
    ELSE IF HasKey(dependency, src) THEN [found |-> TRUE, value |-> Get(dependency, src)]
    ELSE [found |-> FALSE, value |-> dependency]

\* _dependency.count("."): str.count counts the dots, list.count counts the
\* items equal to "."; None, numbers and mappings have no count method
HasCount(v) == IsStr(v) \/ IsList(v)
Count(v) ==
    IF IsStr(v) THEN Cardinality({i \in 1..Len(v.s) : v.s[i] = "."})
    ELSE Cardinality({i \in 1..Len(v.items) : v.items[i] = PyStr(<<".">>)})

\* The body of the loop of _validate_dependencies for one entry.
CheckLegacyDependency(dependency) ==
    IF ~IsStr(dependency) /\ ~IsDict(dependency)
    THEN LegacyRoleSchemaError("dependencies must be either a list of strings or a list of dictionaries.",
                               "dependencies")
    ELSE LET r == Resolved(dependency)
         IN IF ~r.found
            THEN LegacyRoleSchemaError("dependency must include either the 'role,' 'name,' or 'src' keyword.",
                                       "dependencies")
            ELSE IF ~HasCount(r.value)
            THEN AttributeError("object has no attribute 'count'", "dependencies")
            ELSE IF Count(r.value) # 1
            THEN LegacyRoleSchemaError("must have namespace and name separated by '.'", "dependencies")
            ELSE NoErr

RECURSIVE CheckLegacyDependencies(_, _)
CheckLegacyDependencies(value, i) ==
    IF i > Len(value) THEN NoErr
    ELSE AndThen(CheckLegacyDependency(value[i]), CheckLegacyDependencies(value, i + 1))

\* LegacyMetadata._validate_dependencies
_validate_dependencies(value) ==
    IF ~IsList(value)
    THEN LegacyRoleSchemaError("dependencies must be either a list of strings or a list of dictionaries.",
                               "dependencies")
    ELSE CheckLegacyDependencies(value.items, 1)

\* Entries of a legacy dependencies list.
dotted == <<"a", ".", "b", ".", "c">>
LegacyEntries ==
    {PyStr(nsnm), PyStr(ns), PyStr(dotted), PyStr(<<>>), five,
     PyDict(<<PyPair(PyStr(role), PyStr(nsnm))>>),
     PyDict(<<PyPair(PyStr(name), PyStr(otnm))>>),
     PyDict(<<PyPair(PyStr(src), PyStr(nsnm))>>),
     PyDict(<<PyPair(PyStr(src), PyStr(ns))>>),
     PyDict(<<PyPair(PyStr(name), PyStr(dotted))>>),
     PyDict(<<PyPair(PyStr(role), PyStr(ns)), PyPair(PyStr(src), PyStr(nsnm))>>),
     PyDict(<<PyPair(PyStr(src), PyStr(ns)), PyPair(PyStr(role), PyStr(nsnm))>>),
     PyDict(<<PyPair(PyStr(src), PyStr(nsnm)), PyPair(PyStr(name), PyStr(ns))>>),
     PyDict(<<PyPair(PyStr(role), PyStr(nsnm)), PyPair(PyStr(name), five)>>),
     PyDict(<<PyPair(PyStr(<<"x">>), PyStr(nsnm))>>),
     PyDict(<<>>),
     PyDict(<<PyPair(PyStr(role), PyNone)>>),
     PyDict(<<PyPair(PyStr(src), five)>>),
     PyDict(<<PyPair(PyStr(name), PyList(<<PyStr(<<".">>)>>))>>)}

RECURSIVE SeqsUpTo(_, _)
SeqsUpTo(S, n) ==
    IF n = 0 THEN {<<>>}
    ELSE LET shorter == SeqsUpTo(S, n - 1)
         IN shorter \cup {Append(q, x) : q \in shorter, x \in S}

\* LegacyMetadata(galaxy_info, dependencies) arguments
LegacyMetadataInputs ==
    [galaxy_info : {PyNone},
     dependencies : {PyList(q) : q \in SeqsUpTo(LegacyEntries, MaxDeps)}
                      \cup {PyNone, PyStr(nsnm), PyDict(<<>>)}]

\* LegacyMetadata(galaxy_info, dependencies): the assignments
LmBegin(input) ==
    /\ pc = "idle"
    /\ cls' = "LegacyMetadata"
    /\ inp' = input
    /\ pc' = "legacy_validate"
    /\ fld' = 1
    /\ ran' = <<>>
    /\ err' = Staged(NoErr, "none")
    /\ obj' = NoObj
    /\ UNCHANGED <<cfg, catVars, thrVars, heapVars>>

\* The validators of LegacyMetadata: galaxy_info has none, dependencies has
\* _validate_dependencies; then __init__ returns.
LmValidate ==
    /\ pc = "legacy_validate"
    /\ cls = "LegacyMetadata"
    /\ ran' = <<"galaxy_info", "dependencies">>
    /\ LET e == _validate_dependencies(inp.dependencies)
       IN IF e # NoErr
          THEN /\ pc' = "raised"
               /\ err' = Staged(e, "validator")
               /\ obj' = obj
          ELSE /\ pc' = "returned"
               /\ err' = err
               /\ obj' = [some |-> TRUE, fields |-> inp]
    /\ UNCHANGED <<cfg, cls, inp, fld, catVars, thrVars, heapVars>>

InitLegacy ==
    /\ CatalogFresh
    /\ diskOk = TRUE
    /\ disk = BundledTable
    /\ ThreadsIdle
    /\ cfg = [require_v1_or_greater |-> FALSE, check_required_tags |-> FALSE]
    /\ CtorIdle
    /\ HeapEmpty

NextLegacy ==
    \/ pc = "idle" /\ \E input \in LegacyMetadataInputs : LmBegin(input)
    \/ LmValidate
    \/ Finish

SpecLegacy == InitLegacy /\ [][NextLegacy]_vars

\* ---------------------------------------------------------------------------
\* Claims about legacy role metadata
\* ---------------------------------------------------------------------------

\* A bare string is accepted: it consists of exactly two dot-separated parts.
BareAccepted(s) == Len(Split(s, ".")) = 2

\* The keys of role, name, src that mapping d has, in priority order.
PresentKeys(d) == SelectSeq(<<role, name, src>>, LAMBDA k : HasKey(d, k))

\* Every mapping of the list that has one of the three keys holds a string
\* under the first of them.
StringValued(entries) ==
    \A i \in 1..Len(entries) :
        (IsDict(entries[i]) /\ PresentKeys(entries[i]) # <<>>)
            => IsStr(Get(entries[i], PresentKeys(entries[i])[1]))

\* What the claim says of one entry of the list.
EntryAccepted(e) ==
    IF IsStr(e) THEN BareAccepted(e.s)
    ELSE IF IsDict(e) /\ PresentKeys(e) # <<>>
    THEN BareAccepted(Get(e, PresentKeys(e)[1]).s)
    ELSE FALSE

LegacyChecked ==
    /\ cls = "LegacyMetadata"
    /\ pc \in {"returned", "raised"}
    /\ IsList(inp.dependencies)
    /\ StringValued(inp.dependencies.items)

\* C11: a mapping entry of a legacy dependencies list is judged by the string
\* under the first key it has among role, name, src, exactly as that string is
\* judged as a bare entry (two dot-separated parts); a mapping with none of the
\* three keys is rejected with the legacy schema error.
C11_LegacyDependencyResolution ==
    LegacyChecked =>
        LET deps == inp.dependencies.items
            bad == {i \in 1..Len(deps) : ~EntryAccepted(deps[i])}
        IN /\ (pc = "returned") <=> (bad = {})
           /\ (pc = "raised") => err.kind = "LegacyRoleSchemaError"
           /\ \A i \in bad :
                 (/\ \A j \in bad : i <= j
                  /\ IsDict(deps[i])
                  /\ PresentKeys(deps[i]) = <<>>)
                 => err.msg = "dependency must include either the 'role,' 'name,' or 'src' keyword."

C11_Witness ==
    /\ LegacyChecked
    /\ pc = "returned"
    /\ inp.dependencies = PyList(<<
          PyDict(<<PyPair(PyStr(src), PyStr(ns)), PyPair(PyStr(role), PyStr(nsnm))>>),
          PyDict(<<PyPair(PyStr(src), PyStr(nsnm))>>)>>)

\* ---------------------------------------------------------------------------
\* schema.py: CollectionArtifactManifest and its parse classmethod
\* ---------------------------------------------------------------------------

\* F(v), with v computed once.
Bind(v, F(_)) == CHOOSE r \in {F(x) : x \in {v}} : TRUE

\* CollectionInfo(**kw) run to its end: the validators of every field in
\* declaration order, stopping at the first that raises. Only the validators
\* of license call is_valid_license_id, so every field before it sees cache c
\* and every field after it the cache those validators leave.
RunInfoValidators(self, c, conf, ok, file) ==
    LET Outcome(bad) ==
            LET first == CHOOSE i \in bad : \A j \in bad : i <= j
                licenseRan == bad = {} \/ first >= FieldIndex(InfoFields, "license")
                After(lic) ==
                    [err |-> IF bad = {} THEN NoErr
                             ELSE InfoValidators(InfoFields[first], self, c, conf, ok, file).err,
                     cache |-> IF licenseRan THEN lic.cache ELSE c,
                     loads |-> IF licenseRan THEN lic.loads ELSE 0]
            IN Bind(InfoValidators("license", self, c, conf, ok, file), After)
    IN Bind({i \in 1..Len(InfoFields) :
                InfoValidators(InfoFields[i], self, c, conf, ok, file).err # NoErr}, Outcome)

\* CollectionInfo(**kw): [err, self, cache, loads]
ConstructInfo(kw, c, conf, ok, file) ==
    LET Built(self) ==
            LET Done(r) ==
                    [err |-> IF r.err # NoErr THEN r.err
                             ELSE _check_license_or_license_file(self),
                     self |-> self, cache |-> r.cache, loads |-> r.loads]
            IN Bind(RunInfoValidators(self, c, conf, ok, file), Done)
    IN Bind([kw EXCEPT !.dependencies = convert_none_to_empty_dict(@)], Built)

\* A CollectionArtifactFile instance as a value of another instance's field.
ArtifactFileObject(fields) ==
    [t |-> "CollectionArtifactFile", s |-> <<>>, items |-> <<>>, fields |-> fields]

\* The JSON documents handed to parse, by what each key holds:
\*   collection_info:    absent | null | a mapping (valid, with an invalid
\*                       namespace, with neither license nor license_file)
\*   file_manifest_file: absent | null | a string | a mapping (valid, without name)
\*   format:             absent | 1
\*   extra:              whether the document has a key that is no field
ManifestMetas ==
    [collection_info : {"absent", "null", "valid", "bad_namespace", "no_license"},
     file_manifest_file : {"absent", "null", "string", "valid", "no_name"},
     format : {"absent", "given"},
     extra : BOOLEAN]

\* The mapping under collection_info.
InfoKw(k) ==
    LET base == AsFields(InfoFields, BaseInfo)
    IN CASE k = "bad_namespace" -> [base EXCEPT !.namespace = PyStr(<<"N">>)]
         [] k = "no_license" -> [base EXCEPT !.license = PyList(<<>>)]
         [] OTHER -> base

\* The instance CollectionArtifactFile(**mapping) yields for the valid mapping.
FilesJson == CHOOSE x \in ArtifactFileInputs : TRUE

MissingFileManifest ==
    PlainValueError("MANIFEST.json did not contain a 'file_manifest_file' item pointing to FILES.json",
                    "file_manifest_file")

\* lines 348-352 with meta.get("file_manifest_file") in place of the lookup
\* that raises KeyError
FileManifestEntry_get(meta) ==
    [err |-> NoErr,
     entry |-> IF meta.file_manifest_file = "absent" THEN "null" ELSE meta.file_manifest_file]

\* lines 348-352: meta["file_manifest_file"], KeyError turned into ValueError
FileManifestEntry(meta) ==
    IF meta.file_manifest_file = "absent"
    THEN [err |-> MissingFileManifest, entry |-> "absent"]
    ELSE [err |-> NoErr, entry |-> meta.file_manifest_file]

\* CollectionArtifactFile(**file_manifest_file), line 353
ConstructArtifactFile(entry) ==
    CASE entry \in {"null", "string"} ->
            [err |-> TypeError("argument after ** must be a mapping", "file_manifest_file"),
             value |-> PyNone]
      [] entry = "no_name" ->
            [err |-> TypeError("__init__() missing 1 required positional argument: 'name'",
                               "file_manifest_file"),
             value |-> PyNone]
      [] OTHER -> [err |-> NoErr, value |-> ArtifactFileObject(FilesJson)]

\* The fields of a CollectionArtifactManifest instance.
ManifestFields(info, fmt, file) ==
    [collection_info |-> info, format |-> fmt, file_manifest_file |-> file]

\* CollectionArtifactManifest.parse(data), meta the document json.loads(data)
\* yields: [err, fields, cache, loads]
parse(meta, c, conf, ok, file) ==
    LET none == ManifestFields(<<>>, PyNone, PyNone)
        fail(e, cache, n) == [err |-> e, fields |-> none, cache |-> cache, loads |-> n]
        Rest(ci) ==
            LET fe == FileManifestEntry(meta)
                af == ConstructArtifactFile(fe.entry)
            IN IF ci.err # NoErr THEN fail(ci.err, ci.cache, ci.loads)
               ELSE IF fe.err # NoErr THEN fail(fe.err, ci.cache, ci.loads)
               ELSE IF af.err # NoErr THEN fail(af.err, ci.cache, ci.loads)
               ELSE IF meta.extra
               THEN fail(TypeError("__init__() got an unexpected keyword argument", "extra"),
                         ci.cache, ci.loads)
               ELSE [err |-> NoErr,
                     fields |-> ManifestFields(ci.self, PyInt(<<"1">>), af.value),
                     cache |-> ci.cache, loads |-> ci.loads]
    IN IF meta.collection_info \in {"absent", "null"}
       THEN fail(TypeError("argument after ** must be a mapping, not NoneType", "collection_info"),
                 c, 0)
       ELSE Bind(ConstructInfo(InfoKw(meta.collection_info), c, conf, ok, file), Rest)

\* validator=optional(instance_of(CollectionArtifactFile)), lines 336-340
optional_instance_of_CollectionArtifactFile(v) ==
    IF IsNone(v) \/ v.t = "CollectionArtifactFile" THEN NoErr
    ELSE TypeError("'file_manifest_file' must be CollectionArtifactFile", "file_manifest_file")

\* What a caller of the constructor passes as file_manifest_file; leaving it
\* out gives the default None.
FileManifestArgs == {"omitted", "none", "file", "string"}

FileManifestArg(a) ==
    CASE a = "file" -> ArtifactFileObject(FilesJson)
      [] a = "string" -> PyStr(<<"f">>)
      [] OTHER -> PyNone

\* CollectionArtifactManifest.parse(data) called and run to its end
ParseManifest(meta) ==
    /\ pc = "idle"
    /\ \E r \in {parse(meta, spdx, cfg, diskOk, disk)} :
          /\ cls' = "CollectionArtifactManifest"
          /\ inp' = [via |-> "parse", meta |-> meta, arg |-> "omitted"]
          /\ fld' = 0
          /\ ran' = <<>>
          /\ spdx' = r.cache
          /\ loads' = Min(loads + r.loads, MaxCalls)
          /\ writes' = Min(writes + r.loads, MaxCalls)
          /\ loadFailed' = (loadFailed \/ (r.loads > 0 /\ ~diskOk))
          /\ IF r.err # NoErr
             THEN /\ pc' = "raised"
                  /\ err' = Staged(r.err, "parse")
                  /\ obj' = NoObj
             ELSE /\ pc' = "returned"
                  /\ err' = Staged(NoErr, "none")
                  /\ obj' = [some |-> TRUE, fields |-> r.fields]
    /\ UNCHANGED <<cfg, diskOk, disk, calls, lastCall, thrVars, heapVars>>

\* CollectionArtifactManifest(collection_info=info, file_manifest_file=a),
\* info a CollectionInfo instance
NewManifest(a) ==
    /\ pc = "idle"
    /\ LET info == [AsFields(InfoFields, BaseInfo) EXCEPT
                        !.dependencies = convert_none_to_empty_dict(@)]
           e == optional_instance_of_CollectionArtifactFile(FileManifestArg(a))
       IN /\ cls' = "CollectionArtifactManifest"
          /\ inp' = [via |-> "init",
                     meta |-> [collection_info |-> "valid", file_manifest_file |-> "absent",
                              format |-> "absent", extra |-> FALSE],
                     arg |-> a]
          /\ fld' = 0
          /\ ran' = <<"collection_info", "format", "file_manifest_file">>
          /\ IF e # NoErr
             THEN /\ pc' = "raised"
                  /\ err' = Staged(e, "validator")
                  /\ obj' = NoObj
             ELSE /\ pc' = "returned"
                  /\ err' = Staged(NoErr, "none")
                  /\ obj' = [some |-> TRUE,
                             fields |-> ManifestFields(info, PyInt(<<"1">>), FileManifestArg(a))]
    /\ UNCHANGED <<cfg, catVars, thrVars, heapVars>>

\* The caller keeps the instance the constructor returned.
Keep ==
    /\ pc = "returned"
    /\ Len(heap) < MaxHeap
    /\ heap' = Append(heap, Instance(cls, obj.fields, obj.fields))
    /\ cls' = "none"
    /\ inp' = <<>>
    /\ pc' = "idle"
    /\ fld' = 0
    /\ ran' = <<>>
    /\ err' = Staged(NoErr, "none")
    /\ obj' = NoObj
    /\ UNCHANGED <<cfg, setlog, catVars, thrVars>>

NextManifest ==
    \/ pc = "idle" /\ \E meta \in ManifestMetas : ParseManifest(meta)
    \/ \E a \in FileManifestArgs : NewManifest(a)
    \/ Keep
    \/ Finish
    \/ \E c \in Configs : SetConfig(c)

SpecManifest == Init /\ [][NextManifest]_vars

\* ---------------------------------------------------------------------------
\* Claims about the collection manifest
\* ---------------------------------------------------------------------------
ManifestDone == cls = "CollectionArtifactManifest" /\ pc \in {"returned", "raised"}

\* The manifests that exist: the one just returned and those kept.
Manifests ==
    (IF ManifestDone /\ obj.some THEN {obj.fields} ELSE {})
    \cup {heap[i].fields : i \in {j \in 1..Len(heap) : heap[j].cls = "CollectionArtifactManifest"}}

\* C12 as stated: parse of a document without a file_manifest_file key fails
\* with the failure naming the missing item, and every manifest that exists
\* holds a file-manifest descriptor.
C12_ManifestAlwaysHasFileManifest ==
    /\ (ManifestDone /\ inp.via = "parse" /\ inp.meta.file_manifest_file = "absent")
          => (pc = "raised" /\ err.msg = MissingFileManifest.msg)
    /\ \A m \in Manifests : ~IsNone(m.file_manifest_file)

\* C12 as amended: parse of a document whose collection_info is a mapping that
\* CollectionInfo accepts and that has no file_manifest_file key fails with the
\* failure naming the missing item, and every manifest parse returns holds a
\* CollectionArtifactFile; the constructor takes file_manifest_file = None.
C12_ParsedManifestHasFileManifest ==
    /\ (/\ ManifestDone
        /\ inp.via = "parse"
        /\ inp.meta.file_manifest_file = "absent"
        /\ inp.meta.collection_info \notin {"absent", "null"}
        /\ ConstructInfo(InfoKw(inp.meta.collection_info), spdx, cfg, diskOk, disk).err = NoErr)
          => (pc = "raised" /\ err = Staged(MissingFileManifest, "parse"))
    /\ (ManifestDone /\ inp.via = "parse" /\ pc = "returned")
          => obj.fields.file_manifest_file = ArtifactFileObject(FilesJson)
    /\ (ManifestDone /\ inp.via = "init" /\ inp.arg \in {"omitted", "none"})
          => (pc = "returned" /\ IsNone(obj.fields.file_manifest_file))

C12_Witness ==
    /\ ManifestDone
    /\ inp.via = "parse"
    /\ inp.meta.collection_info = "valid"
    /\ inp.meta.file_manifest_file = "absent"
    /\ pc = "raised"
    /\ \E i \in 1..Len(heap) :
          /\ heap[i].cls = "CollectionArtifactManifest"
          /\ IsNone(heap[i].fields.file_manifest_file)

\* ---------------------------------------------------------------------------
\* schema.py: LegacyImportResult
\* ---------------------------------------------------------------------------
LegacyResultFields == <<"namespace", "name", "metadata", "readme_file", "readme_html">>

\* constants.LEGACY_ROLE_NAME_REGEXP
LegacyNameMatch(s) ==
    /\ Len(s) >= 1
    /\ \A i \in 1..Len(s) : s[i] \in Lower \cup Upper \cup Digit \cup {"_", "-"}

\* LegacyImportResult._validate_name
_validate_name(value) ==
    IF ~IsStr(value) THEN TypeError("expected string or bytes-like object", "name")
    ELSE IF ~LegacyNameMatch(value.s)
    THEN LegacyRoleSchemaError("role name is invalid", "name")
    ELSE NoErr

\* _dependency of lines 605-612: as in LegacyMetadata, but a mapping with
\* none of the keys is left as it is
ResolvedOrSelf(dependency) == Resolved(dependency).value

\* The body of the loop of _ensure_no_self_dependency for one entry.
CheckLegacySelfDependency(dependency, self) ==
    LET d == ResolvedOrSelf(dependency)
    IN IF ~IsStr(d) THEN AttributeError("object has no attribute 'split'", "metadata")
       ELSE IF Len(Split(d.s, ".")) # 2
       THEN PlainValueError("not enough or too many values to unpack", "metadata")
       ELSE IF self.namespace = PyStr(Split(d.s, ".")[1]) /\ self.name = PyStr(Split(d.s, ".")[2])
       THEN LegacyRoleSchemaError("cannot depend on itself", "metadata")
       ELSE NoErr

RECURSIVE CheckLegacySelfDependencies(_, _, _)
CheckLegacySelfDependencies(deps, i, self) ==
    IF i > Len(deps) THEN NoErr
    ELSE AndThen(CheckLegacySelfDependency(deps[i], self),
                 CheckLegacySelfDependencies(deps, i + 1, self))

\* LegacyImportResult._ensure_no_self_dependency
_ensure_no_self_dependency(self) ==
    CheckLegacySelfDependencies(self.metadata.dependencies.items, 1, self)

\* The validators of field f of a LegacyImportResult.
LegacyResultValidators(f, self) ==
    CASE f = "name" -> _validate_name(self.name)
      [] f = "metadata" -> _ensure_no_self_dependency(self)
      [] OTHER -> NoErr

\* LegacyMetadata instances: dependencies that _validate_dependencies accepts.
LegacyMetadataObjects ==
    {x \in [galaxy_info : {PyNone},
            dependencies : {PyList(<<>>),
                            PyList(<<PyStr(nsnm)>>),
                            PyList(<<PyStr(otnm), PyDict(<<PyPair(PyStr(src), PyStr(nsnm))>>)>>),
                            PyList(<<PyDict(<<PyPair(PyStr(role), PyStr(otnm)),
                                              PyPair(PyStr(name), PyStr(nsnm))>>)>>),
                            PyList(<<PyStr(ns)>>)}] :
        _validate_dependencies(x.dependencies) = NoErr}

LegacyImportResultInputs ==
    [namespace : {PyStr(ns), PyStr(ot)},
     name : {PyStr(nm), PyStr(<<"n", ".", "m">>), PyStr(<<>>)},
     metadata : LegacyMetadataObjects,
     readme_file : {PyNone},
     readme_html : {PyNone}]

\* LegacyImportResult(**input): the assignments
LrBegin(input) ==
    /\ pc = "idle"
    /\ cls' = "LegacyImportResult"
    /\ inp' = input
    /\ pc' = "legacy_validate"
    /\ fld' = 1
    /\ ran' = <<>>
    /\ err' = Staged(NoErr, "none")
    /\ obj' = NoObj
    /\ UNCHANGED <<cfg, catVars, thrVars, heapVars>>

\* The validators of the next field of a LegacyImportResult.
LrValidate ==
    /\ pc = "legacy_validate"
    /\ cls = "LegacyImportResult"
    /\ LET f == LegacyResultFields[fld]
           e == LegacyResultValidators(f, inp)
       IN /\ ran' = Append(ran, f)
          /\ IF e # NoErr
             THEN /\ pc' = "raised"
                  /\ err' = Staged(e, "validator")
                  /\ UNCHANGED <<fld, obj>>
             ELSE IF fld < Len(LegacyResultFields)
             THEN /\ fld' = fld + 1
                  /\ UNCHANGED <<pc, err, obj>>
             ELSE /\ pc' = "returned"
                  /\ obj' = [some |-> TRUE, fields |-> inp]
                  /\ UNCHANGED <<fld, err>>
    /\ UNCHANGED <<cfg, cls, inp, catVars, thrVars, heapVars>>

\* CollectionInfo, CollectionFilename and LegacyImportResult constructions.
NextObjects ==
    \/ Next
    \/ pc = "idle" /\ \E input \in LegacyImportResultInputs : LrBegin(input)
    \/ LrValidate

SpecObjects == Init /\ [][NextObjects]_vars

\* ---------------------------------------------------------------------------
\* Claims about the order of field-level and object-level checks
\* ---------------------------------------------------------------------------
SelfDependencyRaised ==
    /\ cls = "CollectionInfo"
    /\ pc = "raised"
    /\ err.msg = "Cannot have self dependency"

LicenseCheckRaised == cls = "CollectionInfo" /\ pc = "raised" /\ err.stage = "post"

LegacySelfDependencyRaised ==
    /\ cls = "LegacyImportResult"
    /\ pc = "raised"
    /\ err.msg = "cannot depend on itself"

\* Every entry of the dependencies of the CollectionInfo passes the format check.
AllEntriesWellFormed ==
    /\ IsDict(inp.dependencies)
    /\ \A i \in 1..Len(inp.dependencies.items) : WellFormedEntry(inp.dependencies.items[i])

\* The field-level checks of the LegacyImportResult pass.
LegacyFieldsPass ==
    /\ _validate_name(inp.name) = NoErr
    /\ _validate_dependencies(inp.metadata.dependencies) = NoErr

\* C13 as stated: an object-level failure (license against license_file,
\* dependency self-reference, legacy role self-dependency) is raised only when
\* every field-level check, the format check of every dependency entry
\* included, has passed.
C13_ObjectLevelAfterAllFieldLevel ==
    /\ (SelfDependencyRaised \/ LicenseCheckRaised) => (ran = InfoFields /\ AllEntriesWellFormed)
    /\ LegacySelfDependencyRaised => LegacyFieldsPass

\* C13 as amended: the license against license_file check runs in the
\* post-init hook, after the validators of every field have passed; the
\* dependency self-reference check runs inside the dependencies validator,
\* entry by entry, once the earlier fields, the earlier entries and the key and
\* value type of that entry have passed, before the version range of that
\* entry and any later entry is checked; the legacy self-dependency check runs
\* as the validator of metadata, after the name validator has passed.
C13_ObjectLevelChecksPlacement ==
    /\ LicenseCheckRaised =>
          /\ ran = InfoFields
          /\ AllEntriesWellFormed
          /\ \A i \in 1..Len(inp.dependencies.items) :
                inp.dependencies.items[i].items[1] # PyStr(Label)
    /\ SelfDependencyRaised =>
          /\ err.stage = "validator"
          /\ err.field = "dependencies"
          /\ ran = InfoFields
          /\ IsDict(inp.dependencies)
          /\ \E i \in 1..Len(inp.dependencies.items) :
                /\ inp.dependencies.items[i].items[1] = PyStr(Label)
                /\ IsStr(inp.dependencies.items[i].items[2])
                /\ \A j \in 1..(i - 1) : WellFormedEntry(inp.dependencies.items[j])
    /\ LegacySelfDependencyRaised =>
          /\ err.stage = "validator"
          /\ err.field = "metadata"
          /\ ran = <<"namespace", "name", "metadata">>
          /\ LegacyFieldsPass

C13_Witness ==
    /\ SelfDependencyRaised
    /\ inp.dependencies = PyDict(<<PyPair(PyStr(nsnm), PyStr(<<"b", "a", "d">>))>>)
    /\ ~AllEntriesWellFormed

\* ---------------------------------------------------------------------------
\* schema.py: constructions interleaved with changes of the configuration
\* ---------------------------------------------------------------------------

\* CollectionInfo inputs that only the two policy checks can reject.
PolicyInputs ==
    {[AsFields(InfoFields, BaseInfo) EXCEPT !.version = v, !.tags = t] :
        v \in {PyStr(v100), PyStr(v090)},
        t \in {PyList(<<PyStr(<<"t", "o", "o", "l", "s">>)>>),
               PyList(<<PyStr(<<"n", "t">>)>>),
               PyList(<<>>)}}

NextPolicy ==
    \/ pc = "idle" /\ \E input \in PolicyInputs : Begin(input)
    \/ Validate
    \/ PostInit
    \/ Keep
    \/ Finish
    \/ \E c \in Configs : SetConfig(c)

SpecPolicy == Init /\ [][NextPolicy]_vars

\* ---------------------------------------------------------------------------
\* Claims about the policy flags
\* ---------------------------------------------------------------------------

\* The step that runs the validators of CollectionInfo.version.
VersionStep ==
    /\ cls = "CollectionInfo"
    /\ pc = "validate"
    /\ InfoFields[fld] = "version"
    /\ ran' = Append(ran, "version")

\* The version is a semantic version below 1.0.0 within the length limit.
VersionBelowOne(v) ==
    /\ IsStr(v)
    /\ IsSemver(v.s)
    /\ Len(v.s) <= MAX_LENGTH_VERSION
    /\ SemverLtOne(v.s)

\* C14: each version check and each tags check uses the value the policy flag
\* has in the configuration when that check runs, whatever the configuration
\* was before: a version below 1.0.0 is rejected exactly when
\* require_v1_or_greater is set at that moment and tags without a required tag
\* exactly when check_required_tags is set at that moment.
C14_PolicyReadAtEachCheck ==
    [][/\ (VersionStep /\ VersionBelowOne(inp.version))
             => ((pc' = "raised") <=> cfg.require_v1_or_greater)
       /\ (TagsStep /\ NoRequiredTag(inp.tags) /\ TagsWellFormed(inp.tags))
             => ((pc' = "raised") <=> cfg.check_required_tags)]_vars

\* An input accepted by an earlier construction is rejected by this one: the
\* configuration changed in between and the version check saw the change.
C14_Witness ==
    /\ cls = "CollectionInfo"
    /\ pc = "raised"
    /\ err.msg = "Config is enabled that requires version to be 1.0.0 or greater."
    /\ cfg.require_v1_or_greater
    /\ \E i \in 1..Len(heap) : heap[i].cls = "CollectionInfo" /\ heap[i].fields = inp

====
